---- MODULE Spec2Model ----
(***************************************************************************)
(* A model of erase.js (svg-erase): erase(paths, erasePath, eraseRadius)   *)
(* clips polyline paths against a circular eraser (1-point trail) or a     *)
(* chain of capsules (one per consecutive pair of trail points).           *)
(*                                                                         *)
(* Numbers.  The program computes in IEEE doubles.  The model computes in  *)
(* the integers and draws its inputs from a lattice on which every         *)
(* intermediate value of the program is an integer (path and trail         *)
(* segments are parallel to an axis, and every chord half-length           *)
(* sqrt(r^2 - d^2) that is evaluated is the root of a perfect square), so  *)
(* that the double computation is exact there.  Sqrt and Div are partial:  *)
(* evaluating them on a value with no exact result stops the check.        *)
(* A distance is only ever compared with another distance or with r, and   *)
(* is represented by its square.                                           *)
(***************************************************************************)
EXTENDS Integers, Sequences, FiniteSets, TLC

\* ------------------------------------------------------------ arithmetic

Abs(a) == IF a < 0 THEN -a ELSE a

\* The roots that occur on the model's lattice.
NumRange == 0..48

\* Math.sqrt on a perfect square.
Sqrt(n) == CHOOSE k \in NumRange : k * k = n

\* a / b where b divides a (b # 0).
Div(a, b) == LET q == CHOOSE k \in {Abs(a) \div Abs(b)} : k * Abs(b) = Abs(a)
             IN  IF (a < 0) = (b < 0) THEN q ELSE -q

Pt(x, y) == [x |-> x, y |-> y]

\* ------------------------------------------------- geometry primitives
\* A vector is a pair <<x, y>>.  A value the code names once and reads
\* several times is the parameter of an operator here.

\* getDistance(aX,aY,bX,bY), as the square of the value the code returns.
getDistanceSq(aX, aY, bX, bY) == (bX - aX) * (bX - aX) + (bY - aY) * (bY - aY)

\* getLength(P), as the square of the value the code returns.
getLengthSq(P) == P[1] * P[1] + P[2] * P[2]

\* var EPS = 1e-6, as 1 / EPS_INV.
EPS_INV == 1000000

\* u[0] * v[0] + u[1] * v[1]
Dot(u, v) == u[1] * v[1] + u[2] * v[2]

\* Math.sqrt(Math.pow(v[0], 2) + Math.pow(v[1], 2))
Mag(v) == Sqrt(v[1] * v[1] + v[2] * v[2])

\* [v[0] / mag, v[1] / mag]
Over(v, mag) == <<Div(v[1], mag), Div(v[2], mag)>>

\* u_vec_ab of vec_ab
Unit(v) == Over(v, Mag(v))

\* vec_n = [-vec_ab[1], vec_ab[0]]
Normal(v) == <<-v[2], v[1]>>

\* withinCircle: 1 iff dist < r  (r > 0, so dist < r iff dist^2 < r^2).
withinCircle(x, y, cX, cY, r) ==
  IF getDistanceSq(x, y, cX, cY) < r * r THEN 1 ELSE 0

\* The two tests of withinBox on the projections of AP.
BoxTests(ap_proj_ab, ap_proj_n, mag_ab, r) ==
  IF ap_proj_ab <= 0 \/ ap_proj_ab >= mag_ab THEN 0
  ELSE IF ap_proj_n >= r \/ ap_proj_n <= -r THEN 0
  ELSE 1

\* withinBox in terms of vec_ab and vec_ap.
BoxOf(vec_ab, vec_ap, r) ==
  BoxTests(Dot(vec_ap, Unit(vec_ab)), Dot(vec_ap, Unit(Normal(vec_ab))), Mag(vec_ab), r)

withinBox(pX, pY, aX, aY, bX, bY, r) ==
  BoxOf(<<bX - aX, bY - aY>>, <<pX - aX, pY - aY>>, r)

\* The location index <<in circle a, in circle b, in box>>.
withinCapsule(pX, pY, aX, aY, bX, bY, r) ==
  << withinCircle(pX, pY, aX, aY, r),
     withinCircle(pX, pY, bX, bY, r),
     withinBox(pX, pY, aX, aY, bX, bY, r) >>

\* locationIndex.indexOf(1) !== -1
HasOne(locationIndex) == 1 \in {locationIndex[k] : k \in 1..3}

\* [b0, b1, b2, b3] of getParallelSegments, given u_vec_n.
BoxCorners(aX, aY, bX, bY, r, u_vec_n) ==
  << Pt(aX + r * u_vec_n[1], aY + r * u_vec_n[2]),
     Pt(aX - r * u_vec_n[1], aY - r * u_vec_n[2]),
     Pt(bX - r * u_vec_n[1], bY - r * u_vec_n[2]),
     Pt(bX + r * u_vec_n[1], bY + r * u_vec_n[2]) >>

getParallelSegments(aX, aY, bX, bY, r) ==
  BoxCorners(aX, aY, bX, bY, r, Unit(Normal(<<bX - aX, bY - aY>>)))

\* A result "point or null" is a sequence: << >> is null, <<p>> is the point p.
\* A result "pair or null" is << >> or <<p0, p1>>.

\* if (intersection.x === aX && intersection.y === aY) return null;
\* return intersection;
NullAt(intersection, aX, aY) ==
  IF intersection.x = aX /\ intersection.y = aY THEN << >> ELSE <<intersection>>

\* b of getCircleIntersection, from the square of distCToRightPoint.
HalfChord(distSq, r) == IF distSq = 0 THEN r ELSE Sqrt(r * r - distSq)

\* getCircleIntersection from ac_proj_ab on: rightPoint, b, intersection.
ExitPoint(aX, aY, cX, cY, r, u_vec_ab, ac_proj_ab) ==
  LET b == HalfChord(getDistanceSq(aX + ac_proj_ab * u_vec_ab[1],
                                   aY + ac_proj_ab * u_vec_ab[2], cX, cY), r)
  IN  Pt(aX + ac_proj_ab * u_vec_ab[1] + b * u_vec_ab[1],
         aY + ac_proj_ab * u_vec_ab[2] + b * u_vec_ab[2])

\* getCircleIntersection from u_vec_ab on.
ExitAlong(aX, aY, cX, cY, r, u_vec_ab) ==
  ExitPoint(aX, aY, cX, cY, r, u_vec_ab, Dot(<<cX - aX, cY - aY>>, u_vec_ab))

\* A inside the circle, B outside it: the crossing of AB and the circle.
getCircleIntersection(aX, aY, bX, bY, cX, cY, r) ==
  NullAt(ExitAlong(aX, aY, cX, cY, r, Unit(<<bX - aX, bY - aY>>)), aX, aY)

\* The rest of getClosestPointOnSegment once len is not below EPS.
ClosestAt(A, B, AB, len, k) ==
  IF k < 0 THEN A
  ELSE IF k > len THEN B
  ELSE <<A[1] + Div(AB[1] * k, len), A[2] + Div(AB[2] * k, len)>>

\* getClosestPointOnSegment given AB and len.
ClosestOf(A, B, P, AB, len) ==
  IF len * EPS_INV < 1 THEN A
  ELSE ClosestAt(A, B, AB, len, Div(Dot(AB, <<P[1] - A[1], P[2] - A[2]>>), len))

\* getClosestPointOnSegment given AB.
ClosestBy(A, B, P, AB) == ClosestOf(A, B, P, AB, Mag(AB))

\* The point of segment AB closest to P (A, B, P are pairs <<x, y>>).
getClosestPointOnSegment(A, B, P) ==
  ClosestBy(A, B, P, <<B[1] - A[1], B[2] - A[2]>>)

\* getLength([closest[0] - cX, closest[1] - cY]), squared.
DistSqFrom(closest, cX, cY) == getLengthSq(<<closest[1] - cX, closest[2] - cY>>)

\* The array intersections of getCircleIntersections.
ChordEnds(vec_cd, u_vec_ab, x) ==
  << Pt(vec_cd[1] - u_vec_ab[1] * x, vec_cd[2] - u_vec_ab[2] * x),
     Pt(vec_cd[1] + u_vec_ab[1] * x, vec_cd[2] + u_vec_ab[2] * x) >>

\* if (intersections[0].x === aX && intersections[0].y === aY) return null;
\* return intersections;
NullPairAt(intersections, aX, aY) ==
  IF intersections[1].x = aX /\ intersections[1].y = aY THEN << >>
  ELSE intersections

\* getCircleIntersections after the test of dist: x, vec_cd, intersections.
ChordOf(aX, aY, cX, cY, r, vec_ab, u_vec_n, mag_d) ==
  NullPairAt(ChordEnds(<<cX - mag_d * u_vec_n[1], cY - mag_d * u_vec_n[2]>>,
                       Unit(vec_ab), Sqrt(r * r - mag_d * mag_d)),
             aX, aY)

\* getCircleIntersections from u_vec_n on.
ChordAcross(aX, aY, bX, bY, cX, cY, r, vec_ab, u_vec_n) ==
  IF DistSqFrom(getClosestPointOnSegment(<<aX, aY>>, <<bX, bY>>, <<cX, cY>>), cX, cY)
       >= r * r
  THEN << >>
  ELSE ChordOf(aX, aY, cX, cY, r, vec_ab, u_vec_n, Dot(<<cX - aX, cY - aY>>, u_vec_n))

\* getCircleIntersections from vec_ab on.
ChordBy(aX, aY, bX, bY, cX, cY, r, vec_ab) ==
  ChordAcross(aX, aY, bX, bY, cX, cY, r, vec_ab, Unit(Normal(vec_ab)))

\* A and B both outside the circle: the two crossings of AB and the circle.
getCircleIntersections(aX, aY, bX, bY, cX, cY, r) ==
  ChordBy(aX, aY, bX, bY, cX, cY, r, <<bX - aX, bY - aY>>)

\* 0 <= num / den <= 1
InUnit(num, den) ==
  IF den > 0 THEN 0 <= num /\ num <= den ELSE 0 >= num /\ num >= den

\* getLineIntersection given s and t as sNum / den and tNum / den.
Crossing(aX, aY, s1_x, s1_y, sNum, tNum, den) ==
  IF den = 0 THEN << >>
  ELSE IF InUnit(sNum, den) /\ InUnit(tNum, den)
       THEN <<Pt(aX + Div(tNum * s1_x, den), aY + Div(tNum * s1_y, den))>>
       ELSE << >>

\* getLineIntersection given s1 and s2.
CrossingOf(aX, aY, cX, cY, s1_x, s1_y, s2_x, s2_y) ==
  Crossing(aX, aY, s1_x, s1_y,
           -s1_y * (aX - cX) + s1_x * (aY - cY),
           s2_x * (aY - cY) - s2_y * (aX - cX),
           -s2_x * s1_y + s1_x * s2_y)

\* The crossing of segments AB and CD, or null.
getLineIntersection(aX, aY, bX, bY, cX, cY, dX, dY) ==
  CrossingOf(aX, aY, cX, cY, bX - aX, bY - aY, dX - cX, dY - cY)

\* The loop over intersections: the candidate of cands closest to (tx, ty),
\* starting from best; a later candidate replaces the current one only when
\* it is strictly closer.
RECURSIVE Nearest(_, _, _, _)
Nearest(cands, best, tx, ty) ==
  IF cands = << >> THEN best
  ELSE Nearest(Tail(cands),
               IF getDistanceSq(Head(cands).x, Head(cands).y, tx, ty)
                    < getDistanceSq(best.x, best.y, tx, ty)
               THEN Head(cands) ELSE best,
               tx, ty)

\* The two pushes of getLineIntersection against box[0]-box[3] and box[1]-box[2].
BoxCrossings(aX, aY, bX, bY, box) ==
  getLineIntersection(aX, aY, bX, bY, box[1].x, box[1].y, box[4].x, box[4].y)
  \o getLineIntersection(aX, aY, bX, bY, box[2].x, box[2].y, box[3].x, box[3].y)

\* The array intersections of getCapsuleIntersection, by the location index.
ExitCandidates(aX, aY, locationIndex, bX, bY, c0_x, c0_y, c1_x, c1_y, r, box) ==
  IF locationIndex[1] = 1 /\ locationIndex[2] = 0
  THEN getCircleIntersection(aX, aY, bX, bY, c0_x, c0_y, r)
       \o BoxCrossings(aX, aY, bX, bY, box)
       \o getCircleIntersections(aX, aY, bX, bY, c1_x, c1_y, r)
  ELSE IF locationIndex[1] = 0 /\ locationIndex[2] = 1
  THEN getCircleIntersection(aX, aY, bX, bY, c1_x, c1_y, r)
       \o BoxCrossings(aX, aY, bX, bY, box)
       \o getCircleIntersections(aX, aY, bX, bY, c0_x, c0_y, r)
  ELSE IF locationIndex[1] = 1 /\ locationIndex[2] = 1
  THEN getCircleIntersection(aX, aY, bX, bY, c0_x, c0_y, r)
       \o BoxCrossings(aX, aY, bX, bY, box)
       \o getCircleIntersection(aX, aY, bX, bY, c1_x, c1_y, r)
  ELSE getCircleIntersections(aX, aY, bX, bY, c1_x, c1_y, r)
       \o getCircleIntersections(aX, aY, bX, bY, c0_x, c0_y, r)
       \o BoxCrossings(aX, aY, bX, bY, box)

\* A inside the capsule (locationIndex says where), B outside it.
getCapsuleIntersection(aX, aY, locationIndex, bX, bY, c0_x, c0_y, c1_x, c1_y, r) ==
  NullAt(Nearest(ExitCandidates(aX, aY, locationIndex, bX, bY, c0_x, c0_y, c1_x, c1_y, r,
                                getParallelSegments(c0_x, c0_y, c1_x, c1_y, r)),
                 Pt(aX, aY), bX, bY),
         aX, aY)

\* The array intersections of getCapsuleIntersections.
CutCandidates(aX, aY, bX, bY, c0_x, c0_y, c1_x, c1_y, r, box) ==
  getCircleIntersections(aX, aY, bX, bY, c0_x, c0_y, r)
  \o getCircleIntersections(aX, aY, bX, bY, c1_x, c1_y, r)
  \o BoxCrossings(aX, aY, bX, bY, box)

\* The last test of getCapsuleIntersections.
NullPairIf(intersection0, intersection1, aX, aY, bX, bY) ==
  IF (intersection0.x = bX /\ intersection0.y = bY)
     \/ (intersection1.x = aX /\ intersection1.y = aY) THEN << >>
  ELSE <<intersection0, intersection1>>

\* The two loops of getCapsuleIntersections over intersections.
NearestPair(intersections, aX, aY, bX, bY) ==
  NullPairIf(Nearest(intersections, Pt(bX, bY), aX, aY),
             Nearest(intersections, Pt(aX, aY), bX, bY), aX, aY, bX, bY)

\* A and B both outside the capsule.
getCapsuleIntersections(aX, aY, bX, bY, c0_x, c0_y, c1_x, c1_y, r) ==
  NearestPair(CutCandidates(aX, aY, bX, bY, c0_x, c0_y, c1_x, c1_y, r,
                            getParallelSegments(c0_x, c0_y, c1_x, c1_y, r)),
              aX, aY, bX, bY)


\* ------------------------------------------------------- path utilities

\* cleanPath(path): the trail without its sequential duplicate points.
\* cleaned is built by the while loop (CleanLoop), then by the two ifs.
RECURSIVE CleanLoop(_, _, _)
CleanLoop(path, pClean, cleaned) ==
  IF pClean < Len(path) - 1
  THEN CleanLoop(path, pClean + 1,
                 IF path[pClean + 1].x # path[pClean + 2].x
                    \/ path[pClean + 1].y # path[pClean + 2].y
                 THEN Append(cleaned, path[pClean + 1]) ELSE cleaned)
  ELSE cleaned

\* cleanPath without its last step: the final point is never appended.
cleanPathNoLast(path) ==
  IF Len(path) = 1 THEN path
  ELSE LET looped == CleanLoop(path, 0, << >>)
       IN  IF Len(path) # 0 /\ Len(looped) = 0
           THEN Append(looped, path[1]) ELSE looped

cleanPath(path) ==
  IF Len(path) = 1 THEN path
  ELSE LET looped == CleanLoop(path, 0, << >>)
           cleaned == IF Len(path) # 0 /\ Len(looped) = 0
                      THEN Append(looped, path[1]) ELSE looped
           \* path[path.length - 1] against path[cleaned.length - 1]
           lastPt == path[Len(path)]
           cmpPt == path[Len(cleaned)]
       IN  IF lastPt.x # cmpPt.x \/ lastPt.y # cmpPt.y
           THEN Append(cleaned, path[(Len(path) - 1) + 1])
           ELSE cleaned

\* eraseRadius = eraseRadius || 20   (0 stands for a missing or falsy radius)
DefaultRadius(r) == IF r = 0 THEN 20 ELSE r

\* ------------------------------------------------------------ the heap
\* Objects and arrays have identity.  A heap h is [objs, arrs]: objs[k] is
\* the path object with reference k; arrs[k] is the array with reference k,
\* a sequence.  Allocation appends.  A path object of the caller is
\* [stroke, width, dash, coords]: stroke is a string, width a number, dash
\* and coords references into arrs.

\* path.coords
CoordsOf(h, ref) == h.arrs[h.objs[ref].coords]

\* createNewPath(path): a new object; a string attribute (stroke) is
\* copied, an array attribute (dash, coords) is replaced by a slice() of it:
\* a new array holding the same elements; an attribute that is neither
\* (width) is not copied.  The new object's reference is Len(result.objs).
createNewPath(h, ref) ==
  LET o == h.objs[ref]
      n == Len(h.arrs)
  IN  [objs |-> Append(h.objs, [stroke |-> o.stroke, dash |-> n + 1, coords |-> n + 2]),
       arrs |-> h.arrs \o <<h.arrs[o.dash], h.arrs[o.coords]>>]

\* newPath.coords = path.coords.slice(from, to): a new array
SliceInto(h, newRef, ref, from, to) ==
  [objs |-> [h.objs EXCEPT ![newRef].coords = Len(h.arrs) + 1],
   arrs |-> Append(h.arrs, SubSeq(CoordsOf(h, ref), from + 1, to))]

\* path.coords.push(x)
PushCoord(h, ref, x) ==
  [h EXCEPT !.arrs[h.objs[ref].coords] = Append(@, x)]

\* path.coords[i] = x, in place
SetCoord(h, ref, i, x) ==
  [h EXCEPT !.arrs[h.objs[ref].coords][i + 1] = x]

\* newPath.coords.clear(), on a host that defines Array.prototype.clear
ClearCoords(h, ref) ==
  [h EXCEPT !.arrs[h.objs[ref].coords] = << >>]

\* ------------------------------------------------------- erase: state
\* One call erase(paths, erasePath, eraseRadius), as a record s:
\*   pc            "clean": at line 219; "pass": at the head of a for loop over
\*                 paths; "walk": at the head of the while loop of pointErase
\*                 or capsuleErase; "done": returned; "threw": left by a TypeError
\*   h             the heap
\*   paths, newPaths   the variables of erase: sequences of object references
\*   erasePath, eraseRadius
\*   e, p          the loop indices of the main loops (0-based, as in the code)
\*   path, newPath the parameter and the working object of the running pass
\*   i, last       its cursors (0-based)
\*   hasClear      whether the host defines Array.prototype.clear (the
\*                 language does not; erase.js does not either)

StartState(h, paths, erasePath, eraseRadius, hasClear) ==
  [pc |-> "clean", h |-> h, paths |-> paths, newPaths |-> << >>,
   erasePath |-> erasePath, eraseRadius |-> DefaultRadius(eraseRadius),
   e |-> 0, p |-> 0, path |-> 0, newPath |-> 0, i |-> 0, last |-> 0,
   hasClear |-> hasClear]

\* erasePath = cleanPath(erasePath)
CleanG(s) == s.pc = "clean"
CleanF(s) == [s EXCEPT !.erasePath = cleanPath(s.erasePath), !.pc = "pass"]

PointMode(s) == Len(s.erasePath) = 1

\* ---------------------------------------------------------- pointErase

InCircle(s, pt) ==
  withinCircle(pt.x, pt.y, s.erasePath[1].x, s.erasePath[1].y, s.eraseRadius) = 1

\* The working object is set up: createNewPath(path), then coords.clear().
\* Used by both passes (lines 71-72 and 154-155).
SetUpNewPath(s, path) ==
  LET h1 == createNewPath(s.h, path)
      np == Len(h1.objs)
  IN  IF s.hasClear
      THEN [s EXCEPT !.h = ClearCoords(h1, np), !.path = path, !.newPath = np,
                     !.i = 0, !.last = 0, !.pc = "walk"]
      ELSE [s EXCEPT !.h = h1, !.path = path, !.newPath = np,
                     !.i = 0, !.last = 0, !.pc = "threw"]

\* for (p...) pointErase(paths[p]): entry, up to the while loop
PointEntryG(s) == s.pc = "pass" /\ PointMode(s) /\ s.p < Len(s.paths)
PointEntryF(s) ==
  LET path == s.paths[s.p + 1]
      coords == CoordsOf(s.h, path)
  IN  IF Len(coords) = 1 /\ ~InCircle(s, coords[1])
      THEN [s EXCEPT !.newPaths = Append(@, path), !.p = @ + 1]
      ELSE SetUpNewPath(s, path)

WalkG(s) == s.pc = "walk" /\ s.i < Len(CoordsOf(s.h, s.path)) - 1
P0(s) == CoordsOf(s.h, s.path)[s.i + 1]
P1(s) == CoordsOf(s.h, s.path)[s.i + 2]

\* both in the circle: last = ++i
PointBothInG(s) == WalkG(s) /\ PointMode(s) /\ InCircle(s, P0(s)) /\ InCircle(s, P1(s))
PointBothInF(s) == [s EXCEPT !.i = @ + 1, !.last = s.i + 1]

\* p0 in, p1 out
PointInOutG(s) == WalkG(s) /\ PointMode(s) /\ InCircle(s, P0(s)) /\ ~InCircle(s, P1(s))
\* lines 87-90: the branch once x is computed (<< >> is null)
PointInOutWith(s, x) ==
  IF x # << >>
  THEN [s EXCEPT !.h = SetCoord(s.h, s.path, s.i, x[1]), !.last = s.i]
  ELSE [s EXCEPT !.i = @ + 1]
PointInOutF(s) ==
  LET p0 == P0(s)
      p1 == P1(s)
  IN  PointInOutWith(s, getCircleIntersection(p0.x, p0.y, p1.x, p1.y,
                          s.erasePath[1].x, s.erasePath[1].y, s.eraseRadius))

\* newPath.coords = path.coords.slice(last, i + 1); newPath.coords.push(x);
\* newPaths.push(createNewPath(newPath))
\* The same with the copy put at the front of newPaths.
EmitUpToFront(s, x) ==
  LET h1 == SliceInto(s.h, s.newPath, s.path, s.last, s.i + 1)
      h2 == PushCoord(h1, s.newPath, x)
      h3 == createNewPath(h2, s.newPath)
  IN  [s EXCEPT !.h = h3, !.newPaths = <<Len(h3.objs)>> \o @]
EmitUpTo(s, x) ==
  LET h1 == SliceInto(s.h, s.newPath, s.path, s.last, s.i + 1)
      h2 == PushCoord(h1, s.newPath, x)
      h3 == createNewPath(h2, s.newPath)
  IN  [s EXCEPT !.h = h3, !.newPaths = Append(@, Len(h3.objs))]

\* p0 out, p1 in
PointOutInG(s) == WalkG(s) /\ PointMode(s) /\ ~InCircle(s, P0(s)) /\ InCircle(s, P1(s))
\* lines 97-102: the branch once x is computed; last = ++i in either case
PointOutInWith(s, x) ==
  [(IF x # << >> THEN EmitUpTo(s, x[1]) ELSE s) EXCEPT !.i = s.i + 1, !.last = s.i + 1]
PointOutInF(s) ==
  LET p0 == P0(s)
      p1 == P1(s)
  IN  PointOutInWith(s, getCircleIntersection(p1.x, p1.y, p0.x, p0.y,
                          s.erasePath[1].x, s.erasePath[1].y, s.eraseRadius))

\* The both-outside branch once a pair of crossings is found (lines 106-124
\* and 189-208, the same text in both passes).
CutInTwo(s, possIntersects) ==
  LET h1 == SliceInto(s.h, s.newPath, s.path, s.last, s.i + 1)
      c1 == CoordsOf(h1, s.newPath)
      lastPt == c1[Len(c1)]
      h2 == IF lastPt.x # possIntersects[1].x \/ lastPt.y # possIntersects[1].y
            THEN PushCoord(h1, s.newPath, possIntersects[1]) ELSE h1
      long == Len(CoordsOf(h2, s.newPath)) > 1
      h3 == IF long THEN createNewPath(h2, s.newPath) ELSE h2
      out == IF long THEN Append(s.newPaths, Len(h3.objs)) ELSE s.newPaths
      h4 == SetCoord(h3, s.path, s.i, possIntersects[2])
      next == CoordsOf(h4, s.path)[s.i + 2]
      i2 == IF next.x = possIntersects[2].x /\ next.y = possIntersects[2].y
            THEN s.i + 1 ELSE s.i
  IN  [s EXCEPT !.h = h4, !.newPaths = out, !.i = i2, !.last = i2]

\* both outside the circle
PointBothOutG(s) == WalkG(s) /\ PointMode(s) /\ ~InCircle(s, P0(s)) /\ ~InCircle(s, P1(s))
\* lines 106-125: the branch once possIntersects is computed
PointBothOutWith(s, possIntersects) ==
  IF possIntersects # << >> THEN CutInTwo(s, possIntersects)
  ELSE [s EXCEPT !.i = @ + 1]
PointBothOutF(s) ==
  LET p0 == P0(s)
      p1 == P1(s)
  IN  PointBothOutWith(s, getCircleIntersections(p0.x, p0.y, p1.x, p1.y,
                            s.erasePath[1].x, s.erasePath[1].y, s.eraseRadius))

FlushG(s) == s.pc = "walk" /\ ~(s.i < Len(CoordsOf(s.h, s.path)) - 1)

\* after the loop of pointErase: the rest is pushed as newPath itself
PointFlushG(s) == FlushG(s) /\ PointMode(s)
PointFlushF(s) ==
  LET n == Len(CoordsOf(s.h, s.path))
      h1 == SliceInto(s.h, s.newPath, s.path, s.last, n)
      s1 == IF s.last # s.i
            THEN IF Len(CoordsOf(h1, s.newPath)) > 0
                 THEN [s EXCEPT !.h = h1, !.newPaths = Append(@, s.newPath)]
                 ELSE [s EXCEPT !.h = h1]
            ELSE s
  IN  [s1 EXCEPT !.p = @ + 1, !.pc = "pass"]

\* after the for loop of the 1-point trail: paths = newPaths; return paths
PointEndG(s) == s.pc = "pass" /\ PointMode(s) /\ ~(s.p < Len(s.paths))
PointEndF(s) == [s EXCEPT !.paths = s.newPaths, !.pc = "done"]

\* -------------------------------------------------------- capsuleErase

E0(s) == s.erasePath[s.e + 1]
E1(s) == s.erasePath[s.e + 2]

LocationIndex(s, pt) ==
  withinCapsule(pt.x, pt.y, E0(s).x, E0(s).y, E1(s).x, E1(s).y, s.eraseRadius)

InCapsule(s, pt) == HasOne(LocationIndex(s, pt))

\* for (e...) for (p...) capsuleErase(paths[p], e): entry, up to the while loop
CapsuleEntryG(s) ==
  /\ s.pc = "pass" /\ ~PointMode(s)
  /\ s.e < Len(s.erasePath) - 1 /\ s.p < Len(s.paths)
CapsuleEntryF(s) ==
  LET path == s.paths[s.p + 1]
      coords == CoordsOf(s.h, path)
  IN  IF Len(coords) = 1 /\ ~InCapsule(s, coords[1])
      THEN [s EXCEPT !.newPaths = Append(@, path), !.p = @ + 1]
      ELSE SetUpNewPath(s, path)

CapsuleBothInG(s) ==
  WalkG(s) /\ ~PointMode(s) /\ InCapsule(s, P0(s)) /\ InCapsule(s, P1(s))
CapsuleBothInF(s) == [s EXCEPT !.i = @ + 1, !.last = s.i + 1]

CapsuleInOutG(s) ==
  WalkG(s) /\ ~PointMode(s) /\ InCapsule(s, P0(s)) /\ ~InCapsule(s, P1(s))
\* lines 170-173: the branch once x is computed
CapsuleInOutWith(s, x) ==
  IF x # << >>
  THEN [s EXCEPT !.h = SetCoord(s.h, s.path, s.i, x[1]), !.last = s.i]
  ELSE [s EXCEPT !.i = @ + 1]
CapsuleInOutF(s) ==
  LET p0 == P0(s)
      p1 == P1(s)
  IN  CapsuleInOutWith(s, getCapsuleIntersection(p0.x, p0.y, LocationIndex(s, p0),
                            p1.x, p1.y, E0(s).x, E0(s).y, E1(s).x, E1(s).y,
                            s.eraseRadius))

CapsuleOutInG(s) ==
  WalkG(s) /\ ~PointMode(s) /\ ~InCapsule(s, P0(s)) /\ InCapsule(s, P1(s))
\* lines 180-185: the branch once x is computed; last = ++i only if x
CapsuleOutInWith(s, x) ==
  IF x # << >>
  THEN [EmitUpTo(s, x[1]) EXCEPT !.i = s.i + 1, !.last = s.i + 1]
  ELSE [s EXCEPT !.i = @ + 1]
CapsuleOutInF(s) ==
  LET p0 == P0(s)
      p1 == P1(s)
  IN  CapsuleOutInWith(s, getCapsuleIntersection(p1.x, p1.y, LocationIndex(s, p1),
                            p0.x, p0.y, E0(s).x, E0(s).y, E1(s).x, E1(s).y,
                            s.eraseRadius))

CapsuleBothOutG(s) ==
  WalkG(s) /\ ~PointMode(s) /\ ~InCapsule(s, P0(s)) /\ ~InCapsule(s, P1(s))
\* lines 189-209: the branch once possIntersects is computed
CapsuleBothOutWith(s, possIntersects) ==
  IF possIntersects # << >> THEN CutInTwo(s, possIntersects)
  ELSE [s EXCEPT !.i = @ + 1]
CapsuleBothOutF(s) ==
  LET p0 == P0(s)
      p1 == P1(s)
  IN  CapsuleBothOutWith(s, getCapsuleIntersections(p0.x, p0.y, p1.x, p1.y,
                              E0(s).x, E0(s).y, E1(s).x, E1(s).y, s.eraseRadius))

\* after the loop of capsuleErase: the rest is pushed as a copy of newPath
CapsuleFlushG(s) == FlushG(s) /\ ~PointMode(s)
\* The flush of capsuleErase pushing a copy of the working path as it is,
\* without newPath.coords = path.coords.slice(last, path.coords.length).
CapsuleFlushNoSlice(s) ==
  LET h2 == createNewPath(s.h, s.newPath)
      s1 == IF s.last # s.i
            THEN [s EXCEPT !.h = h2, !.newPaths = Append(@, Len(h2.objs))]
            ELSE s
  IN  [s1 EXCEPT !.p = @ + 1, !.pc = "pass"]
CapsuleFlushF(s) ==
  LET n == Len(CoordsOf(s.h, s.path))
      h1 == SliceInto(s.h, s.newPath, s.path, s.last, n)
      h2 == createNewPath(h1, s.newPath)
      s1 == IF s.last # s.i
            THEN IF Len(CoordsOf(h1, s.newPath)) > 0
                 THEN [s EXCEPT !.h = h2, !.newPaths = Append(@, Len(h2.objs))]
                 ELSE [s EXCEPT !.h = h1]
            ELSE s
  IN  [s1 EXCEPT !.p = @ + 1, !.pc = "pass"]

\* the end of one capsule pass: paths = newPaths; newPaths = []; e++
CapsuleEndG(s) ==
  /\ s.pc = "pass" /\ ~PointMode(s)
  /\ s.e < Len(s.erasePath) - 1 /\ ~(s.p < Len(s.paths))
\* The end of a capsule pass without newPaths = [].
CapsuleEndKeepNew(s) == [s EXCEPT !.paths = s.newPaths, !.e = @ + 1, !.p = 0]
CapsuleEndF(s) == [s EXCEPT !.paths = s.newPaths, !.newPaths = << >>,
                            !.e = @ + 1, !.p = 0]

\* the end of the for loop over e: return paths
ReturnG(s) == s.pc = "pass" /\ ~PointMode(s) /\ ~(s.e < Len(s.erasePath) - 1)
ReturnF(s) == [s EXCEPT !.pc = "done"]

\* One step of the call, whichever it is: the guards exclude each other.
Step(s) ==
  IF CleanG(s) THEN CleanF(s)
  ELSE IF PointEntryG(s) THEN PointEntryF(s)
  ELSE IF PointBothInG(s) THEN PointBothInF(s)
  ELSE IF PointInOutG(s) THEN PointInOutF(s)
  ELSE IF PointOutInG(s) THEN PointOutInF(s)
  ELSE IF PointBothOutG(s) THEN PointBothOutF(s)
  ELSE IF PointFlushG(s) THEN PointFlushF(s)
  ELSE IF PointEndG(s) THEN PointEndF(s)
  ELSE IF CapsuleEntryG(s) THEN CapsuleEntryF(s)
  ELSE IF CapsuleBothInG(s) THEN CapsuleBothInF(s)
  ELSE IF CapsuleInOutG(s) THEN CapsuleInOutF(s)
  ELSE IF CapsuleOutInG(s) THEN CapsuleOutInF(s)
  ELSE IF CapsuleBothOutG(s) THEN CapsuleBothOutF(s)
  ELSE IF CapsuleFlushG(s) THEN CapsuleFlushF(s)
  ELSE IF CapsuleEndG(s) THEN CapsuleEndF(s)
  ELSE IF ReturnG(s) THEN ReturnF(s)
  ELSE s

Ended(s) == s.pc \in {"done", "threw"}

\* The call run to its end, in at most fuel steps.
RECURSIVE Run(_, _)
Run(s, fuel) == IF Ended(s) \/ fuel = 0 THEN s ELSE Run(Step(s), fuel - 1)


\* -------------------------------------------------------------- inputs

\* The radius of the calls (5: the chords at distance 0, 3 and 4 from the
\* centre have the integer half-lengths 5, 4 and 3).
InputRadii == {5}

\* The points of the eraser trails.
T0 == Pt(0, 0)
T1 == Pt(8, 0)
T2 == Pt(8, 8)
TrailPts == {T0, T1, T2}

\* The trails of the calls of erase: consecutive points are equal or on a
\* common axis-parallel line.
InputTrails ==
  { <<T0>>, <<T0, T0>>, <<T0, T1>>, <<T1, T2>>, <<T0, T0, T1>>,
    <<T0, T1, T0>>, <<T0, T1, T2>>, <<T0, T0, T1, T0>>, <<T2, T1, T1, T0>> }

\* The points of the paths.  Each coordinate is at distance 0, 3, 4 or >= 5
\* from each trail coordinate (0 and 8), so that every chord half-length the
\* program takes the root of is an integer.
PathPts ==
  { Pt(-8, 0), Pt(-5, 0), Pt(0, 0), Pt(4, 0), Pt(5, 0),
    Pt(-8, 3), Pt(-5, 3), Pt(0, 3), Pt(4, 3),
    Pt(0, 5), Pt(4, 5), Pt(4, 8), Pt(4, -8) }

\* The points of the paths of a list of several paths.
MultiPts == {Pt(-8, 0), Pt(0, 0), Pt(4, -8), Pt(4, 8)}

MaxLen == 3
MaxPaths == 2

Aligned(a, b) == a.x = b.x \/ a.y = b.y

\* The sequences of 1..n points of pts whose consecutive points are aligned.
Polylines(pts, n) ==
  {q \in UNION {[1..k -> pts] : k \in 1..n} :
     \A k \in 1..(Len(q) - 1) : Aligned(q[k], q[k + 1])}

\* The path lists of the calls: none, one path of up to MaxLen points, or
\* 2..MaxPaths paths of one or two points.
InputCoords ==
  {<< >>} \cup {<<c>> : c \in Polylines(PathPts, MaxLen)}
  \cup UNION {[1..k -> Polylines(MultiPts, 2)] : k \in 2..MaxPaths}

\* The caller's heap for the coordinate lists cs: path k is object k, with
\* the attributes stroke = "s<k>", width = k and dash = [k, 2] (array 2k-1)
\* and the coordinates cs[k] (array 2k).
StrokeOf(k) == <<"s1", "s2", "s3", "s4">>[k]
InputHeap(cs) ==
  [objs |-> [k \in 1..Len(cs) |->
               [stroke |-> StrokeOf(k), width |-> k,
                dash |-> 2 * k - 1, coords |-> 2 * k]],
   arrs |-> [k \in 1..(2 * Len(cs)) |->
               IF k % 2 = 1 THEN <<(k + 1) \div 2, 2>> ELSE cs[k \div 2]]]

\* --------------------------------------------------------- the machine

VARIABLES pc, h, paths, newPaths, erasePath, eraseRadius, e, p, path, newPath,
          i, last, hasClear,
          call,      \* the arguments and the heap at the call (never changed)
          origin,    \* history: origin[ref] = <<p, last, i>>, the loop index
                     \* and the cursors of the pass when it last pushed the
                     \* object ref onto newPaths (<< >> if it never did)
          iters,     \* history: the iterations the running walk has made
                     \* (counted up to IterCap)
          stalls     \* history: how many of them in a row, the last one
                     \* included, left i as it was (counted up to 2)

vars == <<pc, h, paths, newPaths, erasePath, eraseRadius, e, p, path, newPath,
          i, last, hasClear, call, origin, iters, stalls>>

S == [pc |-> pc, h |-> h, paths |-> paths, newPaths |-> newPaths,
      erasePath |-> erasePath, eraseRadius |-> eraseRadius, e |-> e, p |-> p,
      path |-> path, newPath |-> newPath, i |-> i, last |-> last,
      hasClear |-> hasClear]

\* The elements of a sequence.
Range(q) == {q[k] : k \in 1..Len(q)}

\* The history after a step to s: every object the step has pushed onto
\* newPaths gets the p, last and i the step began with.
Pushed(s) ==
  [ref \in 1..Len(s.h.objs) |->
     IF ref \in Range(s.newPaths) \ Range(newPaths) THEN <<p, last, i>>
     ELSE IF ref \in DOMAIN origin THEN origin[ref] ELSE << >>]

\* The count of iterations stops here: more than a walk of the longest path
\* may make if each coordinate but the last is left in place at most once.
IterCap == 2 * MaxLen + 2

\* The history after a step to s: a step from the head of the while loop
\* back to it is one iteration.
Iterated(s) ==
  IF pc = "walk" /\ s.pc = "walk" THEN (IF iters < IterCap THEN iters + 1 ELSE iters)
  ELSE IF s.pc = "walk" THEN 0
  ELSE iters
Stalled(s) ==
  IF pc = "walk" /\ s.pc = "walk" /\ s.i = i THEN (IF stalls < 2 THEN stalls + 1 ELSE stalls)
  ELSE 0

Set(s) ==
  /\ pc' = s.pc /\ h' = s.h /\ paths' = s.paths /\ newPaths' = s.newPaths
  /\ erasePath' = s.erasePath /\ eraseRadius' = s.eraseRadius
  /\ e' = s.e /\ p' = s.p /\ path' = s.path /\ newPath' = s.newPath
  /\ i' = s.i /\ last' = s.last /\ hasClear' = s.hasClear
  /\ origin' = Pushed(s)
  /\ iters' = Iterated(s)
  /\ stalls' = Stalled(s)
  /\ UNCHANGED call

\* The state at the call erase(paths, trail, r), the caller's paths having
\* the coordinate lists cs.
InitWith(cs, trail, r, clr) ==
  /\ pc = "clean"
  /\ h = InputHeap(cs)
  /\ paths = [k \in 1..Len(cs) |-> k]
  /\ newPaths = << >>
  /\ erasePath = trail
  /\ eraseRadius = DefaultRadius(r)
  /\ e = 0 /\ p = 0 /\ path = 0 /\ newPath = 0 /\ i = 0 /\ last = 0
  /\ hasClear = clr
  /\ call = [h |-> InputHeap(cs), paths |-> [k \in 1..Len(cs) |-> k],
             erasePath |-> trail, eraseRadius |-> r]
  /\ origin = [k \in 1..Len(cs) |-> << >>]
  /\ iters = 0
  /\ stalls = 0

Init ==
  \E cs \in InputCoords, trail \in InputTrails, r \in InputRadii, clr \in BOOLEAN :
    InitWith(cs, trail, r, clr)

Clean == CleanG(S) /\ Set(CleanF(S))
PointEntry == PointEntryG(S) /\ Set(PointEntryF(S))
PointBothIn == PointBothInG(S) /\ Set(PointBothInF(S))
PointInOut == PointInOutG(S) /\ Set(PointInOutF(S))
PointOutIn == PointOutInG(S) /\ Set(PointOutInF(S))
PointBothOut == PointBothOutG(S) /\ Set(PointBothOutF(S))
PointFlush == PointFlushG(S) /\ Set(PointFlushF(S))
PointEnd == PointEndG(S) /\ Set(PointEndF(S))
CapsuleEntry == CapsuleEntryG(S) /\ Set(CapsuleEntryF(S))
CapsuleBothIn == CapsuleBothInG(S) /\ Set(CapsuleBothInF(S))
CapsuleInOut == CapsuleInOutG(S) /\ Set(CapsuleInOutF(S))
CapsuleOutIn == CapsuleOutInG(S) /\ Set(CapsuleOutInF(S))
CapsuleBothOut == CapsuleBothOutG(S) /\ Set(CapsuleBothOutF(S))
CapsuleFlush == CapsuleFlushG(S) /\ Set(CapsuleFlushF(S))
CapsuleEnd == CapsuleEndG(S) /\ Set(CapsuleEndF(S))
Return == ReturnG(S) /\ Set(ReturnF(S))

Next ==
  \/ Clean
  \/ PointEntry \/ PointBothIn \/ PointInOut \/ PointOutIn \/ PointBothOut
  \/ PointFlush \/ PointEnd
  \/ CapsuleEntry \/ CapsuleBothIn \/ CapsuleInOut \/ CapsuleOutIn \/ CapsuleBothOut
  \/ CapsuleFlush \/ CapsuleEnd
  \/ Return

Spec == Init /\ [][Next]_vars

\* ----------------------------------------------------- cleanPath alone
\* cleanPath applied to every trail of up to MaxTrail points, and applied
\* again to its own result (pc = "again").

MaxTrail == 4

AllTrails == UNION {[1..k -> TrailPts] : k \in 1..MaxTrail}

InitClean ==
  \E trail \in AllTrails, r \in InputRadii : InitWith(<< >>, trail, r, FALSE)

CleanAgain ==
  /\ pc = "pass"
  /\ Set([S EXCEPT !.erasePath = cleanPath(erasePath), !.pc = "again"])

NextClean == Clean \/ CleanAgain

SpecClean == InitClean /\ [][NextClean]_vars

\* ----------------------------------------------------------- the claims
\* The claims are stated on the caller's view of a call: the arguments and
\* the heap at the call (call), and the list returned (paths, when
\* pc = "done").  A call has ended when it has returned or has been left by
\* a TypeError (pc = "threw").

Done == pc = "done"
HasEnded == Ended(S)

\* The coordinates of the caller's k-th path at the call, and of the k-th
\* path of the list returned.
CallCoords(k) == CoordsOf(call.h, call.paths[k])
ResultCoords(k) == CoordsOf(h, paths[k])

Min(a, b) == IF a < b THEN a ELSE b
Max(a, b) == IF a > b THEN a ELSE b

\* The distance between the intervals [lo1, hi1] and [lo2, hi2].
Gap(lo1, hi1, lo2, hi2) == Max(0, Max(lo1 - hi2, lo2 - hi1))

\* The square of the distance between the segments PQ and EF, each parallel
\* to an axis or a single point.
SegDistSq(P, Q, E, F) ==
  Gap(Min(P.x, Q.x), Max(P.x, Q.x), Min(E.x, F.x), Max(E.x, F.x))
    * Gap(Min(P.x, Q.x), Max(P.x, Q.x), Min(E.x, F.x), Max(E.x, F.x))
  + Gap(Min(P.y, Q.y), Max(P.y, Q.y), Min(E.y, F.y), Max(E.y, F.y))
    * Gap(Min(P.y, Q.y), Max(P.y, Q.y), Min(E.y, F.y), Max(E.y, F.y))

\* The segments of a sequence of points c: its consecutive pairs, or the
\* point itself when c has one point.
Segs(c) ==
  IF Len(c) = 1 THEN {<<c[1], c[1]>>}
  ELSE {<<c[k], c[k + 1]>> : k \in 1..(Len(c) - 1)}

\* Some point of segment PQ is strictly inside the eraser region of trail t:
\* the open disk of radius r about its point, or the open capsule of radius
\* r about a consecutive pair of its points.
Hits(P, Q, t, r) ==
  \E sg \in Segs(t) : SegDistSq(P, Q, sg[1], sg[2]) < r * r

\* Some vertex or segment point of the path with coordinates c is strictly
\* inside the eraser region.
PathHits(c, t, r) == \E sg \in Segs(c) : Hits(sg[1], sg[2], t, r)

\* Point P is at distance more than r from the trail; at distance r exactly.
StrictlyOutside(P, t, r) ==
  \A sg \in Segs(t) : SegDistSq(P, P, sg[1], sg[2]) > r * r
OnBoundary(P, t, r) ==
  /\ \A sg \in Segs(t) : SegDistSq(P, P, sg[1], sg[2]) >= r * r
  /\ \E sg \in Segs(t) : SegDistSq(P, P, sg[1], sg[2]) = r * r

\* C1: after erase returns, no vertex and no segment point of a returned
\* path lies strictly inside the eraser region of the caller's trail.
NothingRemains ==
  Done => \A k \in 1..Len(paths) :
            ~PathHits(ResultCoords(k), call.erasePath, call.eraseRadius)

\* No point of any input path is within eraseRadius of the trail.
NoContact ==
  \A k \in 1..Len(call.paths) :
    ~PathHits(CallCoords(k), call.erasePath, call.eraseRadius)

\* The list returned has as many paths as the caller's, in the same order,
\* each with the coordinate sequence the caller's path had at the call.
SameCoords ==
  /\ Len(paths) = Len(call.paths)
  /\ \A k \in 1..Len(paths) : ResultCoords(k) = CallCoords(k)

\* C2: when no point of an input path is within eraseRadius of the trail,
\* erase returns as many paths, in the same order, each with the coordinate
\* sequence of the corresponding input path.
IdentityWithoutContact ==
  (HasEnded /\ NoContact) => (Done /\ SameCoords)

\* The same of the calls that return: when erase returns and no point of an
\* input path was within eraseRadius of the trail, the list returned has the
\* caller's coordinates.
IdentityWithoutContactOnReturn ==
  (Done /\ NoContact) => SameCoords

\* A call with a capsule chain and two or more paths, one of them of several
\* points, none in contact with the eraser, has returned.
IdentityWithoutContactSeen ==
  /\ Done /\ NoContact
  /\ Len(call.erasePath) >= 2 /\ call.erasePath[1] # call.erasePath[2]
  /\ Len(call.paths) >= 2
  /\ \E k \in 1..Len(call.paths) : Len(CallCoords(k)) >= 2

\* Every vertex of c is strictly inside the circle of radius r about centre.
AllInside(c, centre, r) ==
  \A n \in 1..Len(c) :
    (c[n].x - centre.x) * (c[n].x - centre.x)
      + (c[n].y - centre.y) * (c[n].y - centre.y) < r * r

\* The returned path j derives from the caller's path k (the stroke of a
\* path names it: the caller's strokes differ).
DerivesFrom(j, k) ==
  h.objs[paths[j]].stroke = call.h.objs[call.paths[k]].stroke

\* No returned path derives from an input path whose vertices are all
\* strictly inside the eraser circle of the 1-point trail.
NoneFromInside ==
  \A k \in 1..Len(call.paths) :
    AllInside(CallCoords(k), call.erasePath[1], call.eraseRadius)
      => \A j \in 1..Len(paths) : ~DerivesFrom(j, k)

\* C3: with a 1-point trail, erase returns a list to which an input path
\* whose vertices are all strictly inside the eraser circle contributes no
\* path.
TotalRemoval ==
  (HasEnded /\ Len(call.erasePath) = 1) => (Done /\ NoneFromInside)

\* The same of the calls that return.
TotalRemovalOnReturn ==
  (Done /\ Len(call.erasePath) = 1) => NoneFromInside

\* A call with a 1-point trail and a path of two or more points, all of them
\* strictly inside the circle, has returned.
TotalRemovalSeen ==
  /\ Done /\ Len(call.erasePath) = 1
  /\ \E k \in 1..Len(call.paths) :
       /\ Len(CallCoords(k)) >= 2
       /\ AllInside(CallCoords(k), call.erasePath[1], call.eraseRadius)

\* The call was made with one 2-point path [A, B], A and B strictly outside
\* the eraser of a trail of one or two points, the segment AB passing
\* through the eraser interior.
SplitCase ==
  /\ Len(call.paths) = 1 /\ Len(CallCoords(1)) = 2
  /\ Len(call.erasePath) <= 2
  /\ StrictlyOutside(CallCoords(1)[1], call.erasePath, call.eraseRadius)
  /\ StrictlyOutside(CallCoords(1)[2], call.erasePath, call.eraseRadius)
  /\ Hits(CallCoords(1)[1], CallCoords(1)[2], call.erasePath, call.eraseRadius)

\* The sub-paths [A, X0] and [X1, B] of the split of [A, B] by the eraser of
\* trail t: X0 and X1 on AB and on the eraser boundary, X0 nearer to A than
\* X1, and nothing of either sub-path inside the eraser.
IsSplit(A, B, first, second, t, r) ==
  /\ Len(first) = 2 /\ Len(second) = 2
  /\ first[1] = A /\ second[2] = B
  /\ SegDistSq(first[2], first[2], A, B) = 0
  /\ SegDistSq(second[1], second[1], A, B) = 0
  /\ OnBoundary(first[2], t, r) /\ OnBoundary(second[1], t, r)
  /\ SegDistSq(A, A, first[2], first[2]) < SegDistSq(A, A, second[1], second[1])
  /\ SegDistSq(B, B, second[1], second[1]) < SegDistSq(B, B, first[2], first[2])
  /\ ~Hits(A, first[2], t, r) /\ ~Hits(second[1], B, t, r)

\* C4: a 2-point path [A, B] with A and B strictly outside the eraser and AB
\* passing through its interior is returned as exactly the two sub-paths
\* [A, X0] and [X1, B], X0 and X1 on the eraser boundary, X0 the nearer to A.
SplitInTwo ==
  (HasEnded /\ SplitCase) =>
     /\ Done
     /\ Len(paths) = 2
     /\ IsSplit(CallCoords(1)[1], CallCoords(1)[2], ResultCoords(1), ResultCoords(2),
                call.erasePath, call.eraseRadius)

\* The same of the calls that return.
SplitInTwoOnReturn ==
  (Done /\ SplitCase) =>
     /\ Len(paths) = 2
     /\ IsSplit(CallCoords(1)[1], CallCoords(1)[2], ResultCoords(1), ResultCoords(2),
                call.erasePath, call.eraseRadius)

\* Such a call with a 2-point trail (a capsule) has returned.
SplitInTwoSeen ==
  /\ Done /\ SplitCase
  /\ Len(call.erasePath) = 2 /\ call.erasePath[1] # call.erasePath[2]

\* C5: every path of the list a pass reads and of the list it appends to,
\* and so every path of the list returned, has at least one coordinate.
NoEmptyPath ==
  \A ref \in Range(paths) \cup Range(newPaths) : Len(CoordsOf(h, ref)) >= 1

\* A call with a chain of two or more capsules that cut a path has returned.
NoEmptyPathSeen ==
  /\ Done /\ Len(erasePath) >= 3
  /\ Len(paths) > Len(call.paths)

\* C6: after erase returns, every object and every array of the caller is
\* what it was at the call.
InputUntouched ==
  Done =>
     /\ \A k \in 1..Len(call.h.objs) : h.objs[k] = call.h.objs[k]
     /\ \A a \in 1..Len(call.h.arrs) : h.arrs[a] = call.h.arrs[a]

\* The references of the caller's objects and arrays.
CallObjs == 1..Len(call.h.objs)
CallArrs == 1..Len(call.h.arrs)

\* The returned path j has the attributes of the caller's path k.
SameAttributes(j, k) ==
  /\ DOMAIN h.objs[paths[j]] = DOMAIN call.h.objs[call.paths[k]]
  /\ h.objs[paths[j]].stroke = call.h.objs[call.paths[k]].stroke
  /\ h.objs[paths[j]].width = call.h.objs[call.paths[k]].width
  /\ h.arrs[h.objs[paths[j]].dash] = call.h.arrs[call.h.objs[call.paths[k]].dash]

\* C7: every returned path has the attributes of the input path it derives
\* from, is no object of the caller and no other returned path, and shares
\* no array with the caller or with another returned path.
FreshCopies ==
  Done =>
     /\ \A j \in 1..Len(paths) :
          /\ \E k \in 1..Len(call.paths) : DerivesFrom(j, k) /\ SameAttributes(j, k)
          /\ paths[j] \notin CallObjs
          /\ h.objs[paths[j]].coords \notin CallArrs
          /\ h.objs[paths[j]].dash \notin CallArrs
     /\ \A j1, j2 \in 1..Len(paths) :
          j1 # j2 =>
            /\ paths[j1] # paths[j2]
            /\ h.objs[paths[j1]].coords # h.objs[paths[j2]].coords
            /\ h.objs[paths[j1]].dash # h.objs[paths[j2]].dash

\* The bound on the steps of one call of a chain of calls.
MaxSteps == 60

\* What a caller reads in the list ps of heap hp: per path, its stroke, its
\* dash pattern and its coordinates.
Listing(hp, ps) ==
  [j \in 1..Len(ps) |->
     [stroke |-> hp.objs[ps[j]].stroke,
      dash |-> hp.arrs[hp.objs[ps[j]].dash],
      coords |-> hp.arrs[hp.objs[ps[j]].coords]]]

\* The result of one call of the chain, handed to the next call.
RECURSIVE Chain(_, _, _, _, _, _)
ChainOn(f, t, k, r, clr) ==
  IF f.pc = "done" THEN Chain(f.h, f.paths, t, k + 1, r, clr)
  ELSE [ok |-> FALSE, h |-> f.h, paths |-> f.paths]

\* erase(...erase(erase(ps, [t1, t2], r), [t2, t3], r)..., [t(n-1), tn], r)
\* from call k on, each call a call of its own on the heap the one before
\* left.
Chain(hp, ps, t, k, r, clr) ==
  IF k >= Len(t) THEN [ok |-> TRUE, h |-> hp, paths |-> ps]
  ELSE ChainOn(Run(StartState(hp, ps, <<t[k], t[k + 1]>>, r, clr), MaxSteps),
               t, k, r, clr)

\* No two consecutive points of t are equal.
NoRepeat(t) == \A k \in 1..(Len(t) - 1) : t[k] # t[k + 1]

\* The chain of single-segment calls c ends as the call has: it returns
\* iff the call has returned, and then returns what the call returned.
ChainGives(c) ==
  /\ c.ok = Done
  /\ Done => Listing(c.h, c.paths) = Listing(h, paths)

\* C8: for a trail of two or more points with no two consecutive points
\* equal, erase returns what the chain of single-segment erases returns (and
\* is left by a TypeError iff a call of the chain is).
Pipeline ==
  (HasEnded /\ Len(call.erasePath) >= 2 /\ NoRepeat(call.erasePath)) =>
     ChainGives(Chain(call.h, call.paths, call.erasePath, 1, call.eraseRadius, hasClear))

\* A call with a trail of three points, none repeated, whose capsules cut
\* the paths into more paths, has returned.
PipelineSeen ==
  /\ Done /\ Len(call.erasePath) >= 3 /\ NoRepeat(call.erasePath)
  /\ Len(paths) >= 2 /\ Len(paths) > Len(call.paths)

\* The input path of the call (its index in the caller's list) that the path
\* object ref derives from: the one whose stroke it carries.
SourceOf(ref) ==
  CHOOSE k \in 1..Len(call.paths) :
    call.h.objs[call.paths[k]].stroke = h.objs[ref].stroke

\* In the list q, what derives from input path j comes before what derives
\* from input path k whenever j < k.
BySource(q) ==
  \A a, b \in 1..Len(q) : a < b => SourceOf(q[a]) <= SourceOf(q[b])

\* In the list q a pass is producing, the sub-paths are in the order of the
\* paths the pass was given (origin[..][1]) and, for one of these, in the
\* order of the index ranges last..i they cover: neither end of the range
\* ever decreases and no range comes twice.
InWalkOrder(q) ==
  \A a, b \in 1..Len(q) :
    a < b =>
      LET oa == origin[q[a]]
          ob == origin[q[b]]
      IN  \/ oa[1] < ob[1]
          \/ /\ oa[1] = ob[1]
             /\ oa[2] <= ob[2] /\ oa[3] <= ob[3]
             /\ <<oa[2], oa[3]>> # <<ob[2], ob[3]>>

\* C11: in the list every pass produces, and so in the list returned, the
\* sub-paths derived from input path j come before those derived from input
\* path k whenever j < k, and the sub-paths of one path are in walk order,
\* the order of the index ranges of the path they cover.
OutputOrder ==
  /\ InWalkOrder(newPaths)
  /\ BySource(newPaths)
  /\ BySource(paths)

\* A call with two paths and a 1-point trail has returned three or more
\* sub-paths, two of them cut from one of the paths.
OutputOrderSeen ==
  /\ Done /\ Len(call.paths) = 2 /\ Len(paths) >= 3
  /\ \E a, b, c \in 1..Len(paths) :
       /\ a < b /\ b < c
       /\ SourceOf(paths[a]) # SourceOf(paths[c])
       /\ SourceOf(paths[a]) = SourceOf(paths[b]) \/ SourceOf(paths[b]) = SourceOf(paths[c])

\* C12: erase raises no error: no call with paths of one or more
\* coordinates, a non-empty trail and a positive radius is left by an
\* exception; createNewPath followed by coords.clear() is a defined step.
RaisesNoError == pc # "threw"

\* The classification of p0 and of p1 by the running pass.
InsideP0 == IF PointMode(S) THEN InCircle(S, P0(S)) ELSE InCapsule(S, P0(S))
InsideP1 == IF PointMode(S) THEN InCircle(S, P1(S)) ELSE InCapsule(S, P1(S))

\* The crossing result the running pass computes in the branch of in0, in1:
\* a point or null (<< >>), a pair or null in the both-outside branch, and
\* nothing to compute (<< >>) in the both-inside branch.
CrossingIn(s, p0, p1, in0, in1) ==
  IF in0 /\ in1 THEN << >>
  ELSE IF PointMode(s)
  THEN IF in0 THEN getCircleIntersection(p0.x, p0.y, p1.x, p1.y,
                     s.erasePath[1].x, s.erasePath[1].y, s.eraseRadius)
       ELSE IF in1 THEN getCircleIntersection(p1.x, p1.y, p0.x, p0.y,
                          s.erasePath[1].x, s.erasePath[1].y, s.eraseRadius)
       ELSE getCircleIntersections(p0.x, p0.y, p1.x, p1.y,
              s.erasePath[1].x, s.erasePath[1].y, s.eraseRadius)
  ELSE IF in0 THEN getCapsuleIntersection(p0.x, p0.y, LocationIndex(s, p0), p1.x, p1.y,
                     E0(s).x, E0(s).y, E1(s).x, E1(s).y, s.eraseRadius)
       ELSE IF in1 THEN getCapsuleIntersection(p1.x, p1.y, LocationIndex(s, p1), p0.x, p0.y,
                          E0(s).x, E0(s).y, E1(s).x, E1(s).y, s.eraseRadius)
       ELSE getCapsuleIntersections(p0.x, p0.y, p1.x, p1.y,
              E0(s).x, E0(s).y, E1(s).x, E1(s).y, s.eraseRadius)

\* One iteration of the walk of pointErase, and of capsuleErase, from s,
\* given the classifications in0, in1 and the crossing result x.
PointIteration(s, in0, in1, x) ==
  IF in0 /\ in1 THEN PointBothInF(s)
  ELSE IF in0 THEN PointInOutWith(s, x)
  ELSE IF in1 THEN PointOutInWith(s, x)
  ELSE PointBothOutWith(s, x)
CapsuleIteration(s, in0, in1, x) ==
  IF in0 /\ in1 THEN CapsuleBothInF(s)
  ELSE IF in0 THEN CapsuleInOutWith(s, x)
  ELSE IF in1 THEN CapsuleOutInWith(s, x)
  ELSE CapsuleBothOutWith(s, x)

\* What an iteration leaves of the control of the walk: the cursors and the
\* sub-paths emitted so far.
Control(s) ==
  <<s.i, s.last, [k \in 1..Len(s.newPaths) |-> CoordsOf(s.h, s.newPaths[k])]>>

SameIteration(s, in0, in1, x) ==
  Control(PointIteration(s, in0, in1, x)) = Control(CapsuleIteration(s, in0, in1, x))

\* C13: at every iteration of a walk, given the classifications of p0 and p1
\* and the crossing result the pass has, the body of pointErase and the body
\* of capsuleErase make the same updates of i and last and emit the same
\* sub-paths; in particular when p0 is outside, p1 inside and the crossing
\* is null.
SameControl ==
  WalkG(S) =>
    SameIteration(S, InsideP0, InsideP1, CrossingIn(S, P0(S), P1(S), InsideP0, InsideP1))

\* The same but for the branch 'p0 outside, p1 inside' with a null crossing.
SameControlButOutInNull ==
  WalkG(S) =>
    \/ ~InsideP0 /\ InsideP1 /\ CrossingIn(S, P0(S), P1(S), InsideP0, InsideP1) = << >>
    \/ SameIteration(S, InsideP0, InsideP1, CrossingIn(S, P0(S), P1(S), InsideP0, InsideP1))

\* At the head of the while loop of a walk over a path of n coordinates:
\* 0 <= last <= i <= n - 1; an iteration that left i as it was is not
\* followed by another one; and at most 2(n - 1) iterations have been made.
CursorsInRange ==
  pc = "walk" =>
    LET n == Len(CoordsOf(h, path))
    IN  /\ 0 <= last /\ last <= i /\ i <= n - 1
        /\ stalls <= 1
        /\ iters <= 2 * (n - 1)

\* In a walk i never decreases.
CursorAdvances == pc = "walk" /\ pc' = "walk" => i' >= i

\* C14: every walk terminates: in pointErase and capsuleErase
\* 0 <= last <= i <= coords.length - 1 at every iteration, i never
\* decreases, an iteration that leaves i unchanged is followed by one that
\* advances i, and a path of n coordinates is walked in at most 2(n - 1)
\* iterations.
WalkTerminates == []CursorsInRange /\ [][CursorAdvances]_vars

\* The part of it on the order of the cursors alone.
CursorsOrdered ==
  pc = "walk" => 0 <= last /\ last <= i /\ i <= Len(CoordsOf(h, path)) - 1

\* All the points of t are equal.
AllEqual(t) == \A k \in 1..Len(t) : t[k] = t[1]

\* The call erase(paths, [t[1]], r) of the caller, run to its end.
OnePointCall ==
  Run(StartState(call.h, call.paths, <<call.erasePath[1]>>, call.eraseRadius, hasClear),
      MaxSteps)

\* The call has ended as the call f has, with the same list if it returned.
EndedAs(f) ==
  /\ f.pc = pc
  /\ Done => Listing(f.h, f.paths) = Listing(h, paths)

\* Once the trail is cleaned: with one point no capsule pass runs (e stays
\* 0 and every walk is one of pointErase); with m >= 2 points the capsule
\* pass that runs is pass e < m - 1 on the pair erasePath[e], erasePath[e+1],
\* no two consecutive points of the cleaned trail being equal.
PassesWellFormed ==
  pc # "clean" =>
    IF Len(erasePath) = 1 THEN e = 0
    ELSE /\ NoRepeat(erasePath)
         /\ e <= Len(erasePath) - 1
         /\ pc = "walk" => e < Len(erasePath) - 1 /\ E0(S) # E1(S)

\* C15: no capsule pass runs with coincident endpoints: either the cleaned
\* trail has one point and only the point pass runs, a trail of equal points
\* giving the result of the 1-point trail, or it has m >= 2 points, each
\* capsule pass gets e0 # e1 and exactly m - 1 of them run, in trail order.
NoCoincidentCapsule ==
  /\ PassesWellFormed
  /\ (HasEnded /\ AllEqual(call.erasePath)) => EndedAs(OnePointCall)
  /\ (HasEnded /\ Len(erasePath) >= 2) => (Done /\ e = Len(erasePath) - 1)

\* The same, the number of passes being that of the calls that return.
NoCoincidentCapsuleOnReturn ==
  /\ PassesWellFormed
  /\ (HasEnded /\ AllEqual(call.erasePath)) => EndedAs(OnePointCall)
  /\ (Done /\ Len(erasePath) >= 2) => e = Len(erasePath) - 1

\* A call with a trail of four points, two of them a repeat, has returned
\* after two capsule passes that cut the paths.
NoCoincidentCapsuleSeen ==
  /\ Done /\ Len(call.erasePath) = 4 /\ Len(erasePath) = 3 /\ e = 2
  /\ Len(paths) > Len(call.paths)

\* t with each maximal run of consecutive equal points replaced by one point.
RECURSIVE Dedup(_)
Dedup(t) ==
  IF Len(t) <= 1 THEN t
  ELSE IF t[1] = t[2] THEN Dedup(Tail(t))
  ELSE <<t[1]>> \o Dedup(Tail(t))

\* C9: cleanPath(t) is t with each maximal run of consecutive equal points
\* replaced by one point.
CleanRemovesRunsOnly ==
  pc = "pass" => erasePath = Dedup(call.erasePath)

\* C10: cleanPath(cleanPath(t)) is point for point cleanPath(t).
CleanIdempotent ==
  pc = "again" => erasePath = cleanPath(call.erasePath)

\* cleanPath has been applied twice to a trail of three or more points that
\* the first application shortened to two or more points.
CleanIdempotentSeen ==
  /\ pc = "again" /\ Len(call.erasePath) >= 3
  /\ Len(erasePath) >= 2 /\ Len(erasePath) < Len(call.erasePath)

====
